---------------------------- MODULE Spec2Model ----------------------------
(***************************************************************************)
(* A model of aioquic's wire codec (src/aioquic/packet.py) and of its      *)
(* RangeSet (src/aioquic/rangeset.py).                                     *)
(*                                                                         *)
(* Integers that travel through the codec are 64-bit words held as four    *)
(* 16-bit limbs, most significant first (a "word"), so that the 62-bit     *)
(* range of a variable-length integer is covered exactly.  Packet numbers, *)
(* lengths and cursors are plain integers.                                 *)
(***************************************************************************)
EXTENDS Integers, Sequences, FiniteSets

VARIABLES
    ranges,   \* RangeSet.__ranges: a sequence of [start, stop) records
    hist,     \* the (start, stop) arguments of the add() calls made so far
    op,       \* the codec call made last
    arg,      \* its argument
    buf,      \* the buffer the last push wrote
    res       \* what the last pull returned

vars == <<ranges, hist, op, arg, buf, res>>

\* ------------------------------------------------------------- bounds

MaxPoint == 3
HighBase == 68
MaxAdds == 3
MaxDelta == 6
MaxVersions == 3
MaxBody == 3
MaxEntries == 2

\* ------------------------------------------------------ bits and words

RECURSIVE BitAnd(_, _)
BitAnd(a, b) ==
    IF a = 0 \/ b = 0 THEN 0
    ELSE (IF a % 2 = 1 /\ b % 2 = 1 THEN 1 ELSE 0) + 2 * BitAnd(a \div 2, b \div 2)

RECURSIVE BitOr(_, _)
BitOr(a, b) ==
    IF a = 0 THEN b
    ELSE IF b = 0 THEN a
    ELSE (IF a % 2 = 1 \/ b % 2 = 1 THEN 1 ELSE 0) + 2 * BitOr(a \div 2, b \div 2)

Min(S) == CHOOSE x \in S : \A y \in S : x <= y

Max2(a, b) == IF a >= b THEN a ELSE b

Min2(a, b) == IF a <= b THEN a ELSE b

W0 == <<0, 0, 0, 0>>

\* A non-negative integer below 2^31 as a word.
Int2W(n) == <<0, 0, n \div 65536, n % 65536>>

\* A word below 2^31 as an integer.
W2Int(w) == w[3] * 65536 + w[4]

WSmall(w) == w[1] = 0 /\ w[2] = 0 /\ w[3] < 32768

WLeq(a, b) ==
    \/ a[1] < b[1]
    \/ a[1] = b[1] /\ a[2] < b[2]
    \/ a[1] = b[1] /\ a[2] = b[2] /\ a[3] < b[3]
    \/ a[1] = b[1] /\ a[2] = b[2] /\ a[3] = b[3] /\ a[4] <= b[4]

WAnd(a, m) == [i \in 1..4 |-> BitAnd(a[i], m[i])]

\* The eight big-endian bytes of a word.
BytesOf(w) ==
    [i \in 1..8 |-> IF i % 2 = 1 THEN w[(i + 1) \div 2] \div 256
                    ELSE w[i \div 2] % 256]

\* The word whose low-order bytes are bs (big-endian, at most eight).
WordOf(bs) ==
    LET p == [i \in 1..8 |-> IF i <= 8 - Len(bs) THEN 0 ELSE bs[i - (8 - Len(bs))]]
    IN  [i \in 1..4 |-> p[2 * i - 1] * 256 + p[2 * i]]

Zeros(n) == [i \in 1..n |-> 0]

\* ------------------------------------------------------------- Buffer
\* aioquic/buffer.py: a byte array of fixed capacity and a cursor.  A failed
\* call leaves its error in err, and every later call on the buffer passes it
\* on, as an exception would.

Buffer(capacity) == [data |-> Zeros(capacity), pos |-> 0, err |-> "ok"]

BufferOf(bytes) == [data |-> bytes, pos |-> 0, err |-> "ok"]

Fail(b, e) == [b EXCEPT !.err = e]

Data(b) == SubSeq(b.data, 1, b.pos)

Capacity(b) == Len(b.data)

tell(b) == b.pos

seek(b, pos) == IF b.err # "ok" THEN b ELSE [b EXCEPT !.pos = pos]

push_bytes(b, bs) ==
    IF b.err # "ok" THEN b
    ELSE IF b.pos + Len(bs) > Len(b.data) THEN Fail(b, "BufferTruncated")
    ELSE [b EXCEPT !.data = SubSeq(b.data, 1, b.pos) \o bs
                            \o SubSeq(b.data, b.pos + Len(bs) + 1, Len(b.data)),
                   !.pos = b.pos + Len(bs)]

pull_bytes(b, n) ==
    IF b.err # "ok" THEN [b |-> b, v |-> <<>>]
    ELSE IF b.pos + n > Len(b.data) THEN [b |-> Fail(b, "BufferTruncated"), v |-> <<>>]
    ELSE [b |-> [b EXCEPT !.pos = b.pos + n],
          v |-> SubSeq(b.data, b.pos + 1, b.pos + n)]

\* pull_bytes of a length read from the wire: no buffer holds 2^31 bytes.
PullBytesW(b, w) ==
    IF b.err # "ok" THEN [b |-> b, v |-> <<>>]
    ELSE IF ~WSmall(w) THEN [b |-> Fail(b, "BufferTruncated"), v |-> <<>>]
    ELSE pull_bytes(b, W2Int(w))

\* A word fits n bytes when its other leading bytes are zero.
FitsBytes(w, n) == \A i \in 1..(8 - n) : BytesOf(w)[i] = 0

PushUInt(b, w, n) ==
    IF b.err # "ok" THEN b
    ELSE IF ~FitsBytes(w, n) THEN Fail(b, "ValueTooLarge")
    ELSE push_bytes(b, SubSeq(BytesOf(w), 9 - n, 8))

PullUInt(b, n) ==
    LET r == pull_bytes(b, n)
    IN  [b |-> r.b, v |-> IF r.b.err = "ok" THEN WordOf(r.v) ELSE W0]

\* A push of a Python integer: a negative one fits no unsigned format.
PushInt(b, n, size) ==
    IF b.err # "ok" THEN b
    ELSE IF n < 0 THEN Fail(b, "ValueTooLarge")
    ELSE PushUInt(b, Int2W(n), size)

push_uint8(b, w) == PushUInt(b, w, 1)

push_uint16(b, w) == PushUInt(b, w, 2)

push_uint32(b, w) == PushUInt(b, w, 4)

push_uint64(b, w) == PushUInt(b, w, 8)

pull_uint8(b) == PullUInt(b, 1)

pull_uint16(b) == PullUInt(b, 2)

pull_uint32(b) == PullUInt(b, 4)

pull_uint64(b) == PullUInt(b, 8)

\* ------------------------------------------------------------- varint

\* (size of the pull/push pair, mask), in the order of the table.
UINT_VAR_FORMATS ==
    << [size |-> 1, mask |-> <<0, 0, 0, 63>>],
       [size |-> 2, mask |-> <<0, 0, 0, 16383>>],
       [size |-> 4, mask |-> <<0, 0, 16383, 65535>>],
       [size |-> 8, mask |-> <<16383, 65535, 65535, 65535>>] >>

pull_uint_var(b) ==
    IF b.err # "ok" THEN [b |-> b, v |-> W0]
    ELSE IF b.pos >= Len(b.data) THEN [b |-> Fail(b, "BufferTruncated"), v |-> W0]
    ELSE LET kind == b.data[b.pos + 1] \div 64
             fmt == UINT_VAR_FORMATS[kind + 1]
             r == PullUInt(b, fmt.size)
         IN  [b |-> r.b, v |-> IF r.b.err = "ok" THEN WAnd(r.v, fmt.mask) ELSE W0]

\* push_uint_var choosing a class only when the value is below its mask.
push_uint_var_lt(b, value) ==
    IF b.err # "ok" THEN b
    ELSE LET fit == {i \in 1..4 : WLeq(value, UINT_VAR_FORMATS[i].mask)
                                   /\ value # UINT_VAR_FORMATS[i].mask}
         IN  IF fit = {} THEN Fail(b, "ValueError")
             ELSE LET i == Min(fit)
                      p == PushUInt(b, value, UINT_VAR_FORMATS[i].size)
                  IN  IF p.err # "ok" THEN p
                      ELSE [p EXCEPT !.data[b.pos + 1] = BitOr(@, (i - 1) * 64)]

push_uint_var(b, value) ==
    IF b.err # "ok" THEN b
    ELSE LET fit == {i \in 1..4 : WLeq(value, UINT_VAR_FORMATS[i].mask)}
         IN  IF fit = {} THEN Fail(b, "ValueError")
             ELSE LET i == Min(fit)
                      p == PushUInt(b, value, UINT_VAR_FORMATS[i].size)
                  IN  IF p.err # "ok" THEN p
                      ELSE [p EXCEPT !.data[b.pos + 1] = BitOr(@, (i - 1) * 64)]

\* push_uint_var of a Python integer: a negative one fits no unsigned format.
PushVarInt(b, n) ==
    IF b.err # "ok" THEN b
    ELSE IF n < 0 THEN Fail(b, "ValueTooLarge")
    ELSE push_uint_var(b, Int2W(n))

\* ------------------------------------------------------------ RangeSet

Range(start, stop) == [start |-> start, stop |-> stop]

Insert(rs, i, r) == SubSeq(rs, 1, i - 1) \o <<r>> \o SubSeq(rs, i, Len(rs))

Pop(rs, i) == SubSeq(rs, 1, i - 1) \o SubSeq(rs, i + 1, Len(rs))

\* Absorb with the strict test of a range that only overlaps.
RECURSIVE AbsorbStrict(_, _, _, _)
AbsorbStrict(rs, i, start, stop) ==
    IF i < Len(rs) /\ rs[i + 1].start < stop
    THEN AbsorbStrict(Pop(rs, i + 1), i, start, Max2(rs[i + 1].stop, stop))
    ELSE [rs EXCEPT ![i] = Range(start, stop)]

\* The inner while loop of add: ranges after slot i that start at or below
\* stop are absorbed; then slot i takes the widened range.
RECURSIVE Absorb(_, _, _, _)
Absorb(rs, i, start, stop) ==
    IF i < Len(rs) /\ rs[i + 1].start <= stop
    THEN Absorb(Pop(rs, i + 1), i, start, Max2(rs[i + 1].stop, stop))
    ELSE [rs EXCEPT ![i] = Range(start, stop)]

\* AddScan inserting before a range the added one abuts.
RECURSIVE AddScanLoose(_, _, _, _)
AddScanLoose(rs, i, start, stop) ==
    IF i > Len(rs) THEN Append(rs, Range(start, stop))
    ELSE IF stop <= rs[i].start THEN Insert(rs, i, Range(start, stop))
    ELSE IF start > rs[i].stop THEN AddScanLoose(rs, i + 1, start, stop)
    ELSE Absorb(rs, i, Min2(start, rs[i].start), Max2(stop, rs[i].stop))

\* The for loop of add, from slot i on.
RECURSIVE AddScan(_, _, _, _)
AddScan(rs, i, start, stop) ==
    IF i > Len(rs) THEN Append(rs, Range(start, stop))
    ELSE IF stop < rs[i].start THEN Insert(rs, i, Range(start, stop))
    ELSE IF start > rs[i].stop THEN AddScan(rs, i + 1, start, stop)
    ELSE Absorb(rs, i, Min2(start, rs[i].start), Max2(stop, rs[i].stop))

\* stop of an add call made with start alone (None in the source).
NoStop == -1

add(rs, start, stop) ==
    AddScan(rs, 1, start, IF stop = NoStop THEN start + 1 ELSE stop)

\* RangeSet.__eq__: the two lists of ranges are equal.
RangeSetEq(a, b) == a = b

shift(rs) == [range |-> rs[1], rest |-> Pop(rs, 1)]

\* ---------------------------------------------------------- ACK frame

\* The for loop of pull_ack_frame, with k additional ranges left to read.
RECURSIVE AckPullLoop(_, _, _, _)
AckPullLoop(b, rs, end, k) ==
    IF k = 0 \/ b.err # "ok" THEN [b |-> b, rangeset |-> rs]
    ELSE LET g == pull_uint_var(b)
             c == pull_uint_var(g.b)
             e == end - (W2Int(g.v) + 2)
         IN  IF c.b.err # "ok" THEN [b |-> c.b, rangeset |-> rs]
             ELSE AckPullLoop(c.b, add(rs, e - W2Int(c.v), e + 1),
                              e - W2Int(c.v), k - 1)

pull_ack_frame(b) ==
    LET r1 == pull_uint_var(b)
        r2 == pull_uint_var(r1.b)
        r3 == pull_uint_var(r2.b)
        r4 == pull_uint_var(r3.b)
        end == W2Int(r1.v)
        ack_count == W2Int(r4.v)
    IN  IF r4.b.err # "ok" THEN [err |-> r4.b.err, rangeset |-> <<>>, delay |-> W0]
        ELSE LET l == AckPullLoop(r4.b, add(<<>>, end - ack_count, end + 1),
                                  end - ack_count, W2Int(r3.v))
             IN  IF l.b.err # "ok"
                 THEN [err |-> l.b.err, rangeset |-> <<>>, delay |-> W0]
                 ELSE [err |-> "ok", rangeset |-> l.rangeset, delay |-> r2.v]

\* The while loop of push_ack_frame; out logs the gaps and lengths pushed.
RECURSIVE AckPushLoop(_, _, _, _, _)
AckPushLoop(b, rangeset, index, start, out) ==
    IF index = 0 THEN [b |-> b, out |-> out]
    ELSE LET r == rangeset[index]
             gap == start - r.stop - 1
             len == r.stop - r.start - 1
         IN  AckPushLoop(PushVarInt(PushVarInt(b, gap), len), rangeset,
                         index - 1, r.start, out \o <<gap, len>>)

\* push_ack_frame counting the first range's length one too high.
push_ack_frame_len(b, rangeset, delay) ==
    LET index == Len(rangeset)
        r == rangeset[index]
        b1 == PushVarInt(b, r.stop - 1)
        b2 == push_uint_var(b1, delay)
        b3 == PushVarInt(b2, index - 1)
        b4 == PushVarInt(b3, r.stop - r.start)
    IN  AckPushLoop(b4, rangeset, index - 1, r.start, <<r.stop - r.start>>)

\* index is one more than in the source: sequences start at 1.
push_ack_frame(b, rangeset, delay) ==
    LET index == Len(rangeset)
        r == rangeset[index]
        b1 == PushVarInt(b, r.stop - 1)
        b2 == push_uint_var(b1, delay)
        b3 == PushVarInt(b2, index - 1)
        b4 == PushVarInt(b3, r.stop - 1 - r.start)
    IN  AckPushLoop(b4, rangeset, index - 1, r.start, <<r.stop - 1 - r.start>>)

\* ------------------------------------------------------ RangeSet and ACK

Points == (0..MaxPoint) \cup {HighBase, HighBase + 1}

Pow2_62m1 == <<16383, 65535, 65535, 65535>>

Delays == {Int2W(0), Int2W(42), Int2W(63), Int2W(64), Int2W(16384), Pow2_62m1}

AckCapacity == 64

Idle == [op |-> "none"]

Init ==
    /\ ranges = <<>>
    /\ hist = <<>>
    /\ op = "init"
    /\ arg = Idle
    /\ buf = Buffer(0)
    /\ res = Idle

\* assert stop > start, which a call with start alone always meets.
AddAllowed(start, stop) == stop = NoStop \/ stop > start

Add ==
    \E start \in Points, stop \in Points \cup {NoStop} :
        /\ AddAllowed(start, stop)
        /\ ranges' = add(ranges, start, stop)
        /\ op' = "add"
        /\ arg' = Range(start, stop)
        /\ buf' = Buffer(0)
        /\ res' = Idle
        /\ UNCHANGED hist

Shift ==
    /\ ranges # <<>>
    /\ ranges' = shift(ranges).rest
    /\ op' = "shift"
    /\ arg' = Idle
    /\ buf' = Buffer(0)
    /\ res' = shift(ranges).range
    /\ UNCHANGED hist

AckPush ==
    \E delay \in Delays :
        /\ ranges # <<>>
        /\ LET p == push_ack_frame(Buffer(AckCapacity), ranges, delay)
           IN  /\ buf' = p.b
               /\ arg' = [rangeset |-> ranges, delay |-> delay, out |-> p.out]
        /\ op' = "ack_pushed"
        /\ res' = Idle
        /\ UNCHANGED <<ranges, hist>>

AckPull ==
    /\ op = "ack_pushed"
    /\ buf.err = "ok"
    /\ res' = pull_ack_frame(BufferOf(Data(buf)))
    /\ op' = "ack_pulled"
    /\ UNCHANGED <<ranges, hist, arg, buf>>

Next == Add \/ Shift \/ AckPush \/ AckPull

Spec == Init /\ [][Next]_vars

\* C1: after any sequence of add and shift calls the stored ranges are
\* non-empty ranges, sorted ascending, pairwise disjoint and non-adjacent.
RangesWellFormed ==
    /\ \A i \in 1..Len(ranges) : ranges[i].start < ranges[i].stop
    /\ \A i \in 1..(Len(ranges) - 1) : ranges[i].stop < ranges[i + 1].start

\* An added range that abuts the two stored ranges around it has merged
\* them into one, before a third range.
MergedAbutting ==
    /\ op = "add"
    /\ arg = Range(1, 2)
    /\ ranges = <<Range(0, 3), Range(HighBase, HighBase + 1)>>

\* C2: pull_ack_frame on the bytes push_ack_frame wrote returns the same
\* ranges in the same order and the same delay, and every gap and range
\* length push_ack_frame emitted is >= 0.
AckRoundTrip ==
    /\ op \in {"ack_pushed", "ack_pulled"} =>
          /\ buf.err = "ok"
          /\ \A i \in 1..Len(arg.out) : arg.out[i] >= 0
    /\ op = "ack_pulled" =>
          /\ res.err = "ok"
          /\ RangeSetEq(res.rangeset, arg.rangeset)
          /\ res.delay = arg.delay

\* A frame of three ranges, one gap wide enough for a two-byte varint, has
\* been pushed and pulled.
AckThreeRanges ==
    /\ op = "ack_pulled"
    /\ Len(arg.rangeset) = 3
    /\ arg.delay = Int2W(42)
    /\ \E i \in 2..Len(arg.out) : arg.out[i] >= 64

\* ------------------------------------------------- order of the add calls

AddLogged ==
    \E start \in Points, stop \in Points :
        /\ AddAllowed(start, stop)
        /\ Len(hist) < MaxAdds
        /\ ranges' = add(ranges, start, stop)
        /\ hist' = Append(hist, Range(start, stop))
        /\ op' = "add"
        /\ arg' = Range(start, stop)
        /\ UNCHANGED <<buf, res>>

NextAdd == AddLogged

SpecAdd == Init /\ [][NextAdd]_vars

Perms(n) == {f \in [1..n -> 1..n] : \A i, j \in 1..n : f[i] = f[j] => i = j}

\* RangeSet(ranges): the constructor adds the ranges one by one.
RECURSIVE AddAll(_, _)
AddAll(rs, calls) ==
    IF calls = <<>> THEN rs
    ELSE AddAll(add(rs, calls[1].start, calls[1].stop), Tail(calls))

\* C6: the ranges added so far, added to an empty RangeSet in any order,
\* give the RangeSet the calls built.
AddOrderIndependent ==
    \A p \in Perms(Len(hist)) :
        RangeSetEq(AddAll(<<>>, [i \in 1..Len(hist) |-> hist[p[i]]]), ranges)

\* Two separate ranges and then the range between them, which abuts both,
\* have become one range.
AddedInBetween ==
    /\ hist = <<Range(0, 1), Range(2, 3), Range(1, 2)>>
    /\ ranges = <<Range(0, 3)>>

\* -------------------------------------------------------------- varint

VarIntValues ==
    UNION {{Int2W(k), Int2W(63 - k), Int2W(64 + k), Int2W(16383 - k),
            Int2W(16384 + k), <<0, 0, 16383, 65535 - k>>, <<0, 0, 16384, k>>,
            <<16383, 65535, 65535, 65535 - k>>, <<16384, 0, 0, k>>,
            <<k, 17767, 35243, 52719>>} : k \in 0..MaxDelta}

VarIntCapacity == 9

VarIntPush ==
    /\ op = "init"
    /\ \E value \in VarIntValues, lead \in 0..1 :
        /\ buf' = push_uint_var(seek(Buffer(VarIntCapacity), lead), value)
        /\ arg' = [value |-> value, lead |-> lead]
        /\ op' = "varint_pushed"
        /\ res' = Idle
        /\ UNCHANGED <<ranges, hist>>

VarIntPull ==
    /\ op = "varint_pushed"
    /\ buf.err = "ok"
    /\ res' = pull_uint_var(seek(BufferOf(buf.data), arg.lead))
    /\ op' = "varint_pulled"
    /\ UNCHANGED <<ranges, hist, arg, buf>>

NextVarInt == VarIntPush \/ VarIntPull

SpecVarInt == Init /\ [][NextVarInt]_vars

\* The index of the smallest class whose mask covers v (4: none does).
SmallestClass(v) ==
    IF WLeq(v, <<0, 0, 0, 63>>) THEN 0
    ELSE IF WLeq(v, <<0, 0, 0, 16383>>) THEN 1
    ELSE IF WLeq(v, <<0, 0, 16383, 65535>>) THEN 2
    ELSE IF WLeq(v, <<16383, 65535, 65535, 65535>>) THEN 3
    ELSE 4

ClassBytes(c) == IF c = 0 THEN 1 ELSE IF c = 1 THEN 2 ELSE IF c = 2 THEN 4 ELSE 8

\* C3: for a value up to 2^62-1 push_uint_var writes exactly the bytes of
\* the smallest class that covers it, the class index in the two high bits
\* of the first byte, and pull_uint_var returns the value with the cursor
\* advanced by that many bytes.
VarIntRoundTrip ==
    op \in {"varint_pushed", "varint_pulled"} /\ SmallestClass(arg.value) < 4 =>
        /\ buf.err = "ok"
        /\ buf.pos - arg.lead = ClassBytes(SmallestClass(arg.value))
        /\ buf.data[arg.lead + 1] \div 64 = SmallestClass(arg.value)
        /\ op = "varint_pulled" =>
              /\ res.b.err = "ok"
              /\ res.v = arg.value
              /\ res.b.pos = buf.pos

\* 2^62-1 has been written in eight bytes and read back.
VarIntLargest ==
    /\ op = "varint_pulled"
    /\ arg.value = <<16383, 65535, 65535, 65535>>
    /\ buf.pos - arg.lead = 8
    /\ res.v = arg.value

\* ------------------------------------------------------ packet header

PACKET_LONG_HEADER == 128
PACKET_FIXED_BIT == 64
PACKET_TYPE_INITIAL == 192
PACKET_TYPE_0RTT == 208
PACKET_TYPE_HANDSHAKE == 224
PACKET_TYPE_RETRY == 240
PACKET_TYPE_MASK == 240

\* QuicProtocolVersion
NEGOTIATION == W0

DRAFT_17 == <<0, 0, 65280, 17>>

\* packet_type of a version negotiation packet (None in the source).
NoType == -1

\* version of a short header packet (None in the source).
NoVersion == <<>>

QuicHeader(version, packet_type, destination_cid, source_cid, original_destination_cid, token, rest_length) ==
    [version |-> version, packet_type |-> packet_type,
     destination_cid |-> destination_cid, source_cid |-> source_cid,
     original_destination_cid |-> original_destination_cid,
     token |-> token, rest_length |-> rest_length]

decode_cid_length(length) == IF length # 0 THEN length + 3 ELSE 0

\* encode_cid_length taking the length itself as the code.
encode_cid_length_raw(length) == length

encode_cid_length(length) == IF length # 0 THEN length - 3 ELSE 0

is_long_header(first_byte) == BitAnd(first_byte, PACKET_LONG_HEADER) # 0

\* (encode(d) << 4) | encode(s); negative when either code is.
CidLengthByte(d, s) ==
    IF encode_cid_length(d) < 0 \/ encode_cid_length(s) < 0
    THEN Min2(encode_cid_length(d), encode_cid_length(s))
    ELSE BitOr(encode_cid_length(d) * 16, encode_cid_length(s))

NoHeader == QuicHeader(NoVersion, NoType, <<>>, <<>>, <<>>, <<>>, W0)

Raised(b) == [b |-> b, h |-> NoHeader]

\* The long header branch once version and both CIDs are read.
PullLongRest(b, first_byte, version, destination_cid, source_cid) ==
    IF version = NEGOTIATION
    THEN [b |-> b,
          h |-> QuicHeader(version, NoType, destination_cid, source_cid,
                           <<>>, <<>>, Int2W(Capacity(b) - tell(b)))]
    ELSE IF BitAnd(first_byte, PACKET_FIXED_BIT) = 0 THEN Raised(Fail(b, "ValueError"))
    ELSE LET packet_type == BitAnd(first_byte, PACKET_TYPE_MASK)
         IN  IF packet_type = PACKET_TYPE_INITIAL
             THEN LET tl == pull_uint_var(b)
                      tk == PullBytesW(tl.b, tl.v)
                      rl == pull_uint_var(tk.b)
                  IN  IF rl.b.err # "ok" THEN Raised(rl.b)
                      ELSE [b |-> rl.b,
                            h |-> QuicHeader(version, packet_type, destination_cid,
                                             source_cid, <<>>, tk.v, rl.v)]
             ELSE IF packet_type = PACKET_TYPE_RETRY
             THEN LET od == pull_bytes(b, decode_cid_length(BitAnd(first_byte, 15)))
                      tk == pull_bytes(od.b, Capacity(od.b) - tell(od.b))
                  IN  IF tk.b.err # "ok" THEN Raised(tk.b)
                      ELSE [b |-> tk.b,
                            h |-> QuicHeader(version, packet_type, destination_cid,
                                             source_cid, od.v, tk.v, W0)]
             ELSE LET rl == pull_uint_var(b)
                  IN  IF rl.b.err # "ok" THEN Raised(rl.b)
                      ELSE [b |-> rl.b,
                            h |-> QuicHeader(version, packet_type, destination_cid,
                                             source_cid, <<>>, <<>>, rl.v)]

pull_quic_header(b, host_cid_length) ==
    LET f == pull_uint8(b)
        first_byte == W2Int(f.v)
    IN  IF f.b.err # "ok" THEN Raised(f.b)
        ELSE IF is_long_header(first_byte)
        THEN LET version == pull_uint32(f.b)
                 cid_lengths == pull_uint8(version.b)
                 destination_cid ==
                     pull_bytes(cid_lengths.b,
                                decode_cid_length(W2Int(cid_lengths.v) \div 16))
                 source_cid ==
                     pull_bytes(destination_cid.b,
                                decode_cid_length(W2Int(cid_lengths.v) % 16))
             IN  IF source_cid.b.err # "ok" THEN Raised(source_cid.b)
                 ELSE PullLongRest(source_cid.b, first_byte, version.v,
                                   destination_cid.v, source_cid.v)
        ELSE IF BitAnd(first_byte, PACKET_FIXED_BIT) = 0
        THEN Raised(Fail(f.b, "ValueError"))
        ELSE LET destination_cid == pull_bytes(f.b, host_cid_length)
             IN  IF destination_cid.b.err # "ok" THEN Raised(destination_cid.b)
                 ELSE [b |-> destination_cid.b,
                       h |-> QuicHeader(NoVersion, BitAnd(first_byte, PACKET_TYPE_MASK),
                                        destination_cid.v, <<>>, <<>>, <<>>,
                                        Int2W(Capacity(destination_cid.b)
                                              - tell(destination_cid.b)))]

\* push_quic_header writing the token of an Initial packet with no length.
push_quic_header_nolen(b, header) ==
    LET b1 == PushInt(b, header.packet_type, 1)
        b2 == push_uint32(b1, header.version)
        b3 == PushInt(b2, CidLengthByte(Len(header.destination_cid),
                                        Len(header.source_cid)), 1)
        b4 == push_bytes(b3, header.destination_cid)
        b5 == push_bytes(b4, header.source_cid)
        b6 == IF BitAnd(header.packet_type, PACKET_TYPE_MASK) = PACKET_TYPE_INITIAL
              THEN push_bytes(b5, header.token)
              ELSE b5
    IN  PushInt(PushInt(b6, 0, 2), 0, 2)

push_quic_header(b, header) ==
    LET b1 == PushInt(b, header.packet_type, 1)
        b2 == push_uint32(b1, header.version)
        b3 == PushInt(b2, CidLengthByte(Len(header.destination_cid),
                                        Len(header.source_cid)), 1)
        b4 == push_bytes(b3, header.destination_cid)
        b5 == push_bytes(b4, header.source_cid)
        b6 == IF BitAnd(header.packet_type, PACKET_TYPE_MASK) = PACKET_TYPE_INITIAL
              THEN push_bytes(PushVarInt(b5, Len(header.token)), header.token)
              ELSE b5
    IN  PushInt(PushInt(b6, 0, 2), 0, 2)

RECURSIVE PushVersions(_, _)
PushVersions(b, versions) ==
    IF versions = <<>> THEN b
    ELSE PushVersions(push_uint32(b, versions[1]), Tail(versions))

VNCapacity == 100

\* encode_quic_version_negotiation writing the random byte as drawn.
encode_quic_version_negotiation_raw(random, source_cid, destination_cid, supported_versions) ==
    LET b1 == PushInt(Buffer(VNCapacity), random, 1)
        b2 == push_uint32(b1, NEGOTIATION)
        b3 == PushInt(b2, CidLengthByte(Len(destination_cid), Len(source_cid)), 1)
        b4 == push_bytes(b3, destination_cid)
        b5 == push_bytes(b4, source_cid)
    IN  PushVersions(b5, supported_versions)

\* random is the byte os.urandom(1) returns; the result is the buffer, whose
\* written part is the datagram.
encode_quic_version_negotiation(random, source_cid, destination_cid, supported_versions) ==
    LET b1 == PushInt(Buffer(VNCapacity), BitOr(random, PACKET_LONG_HEADER), 1)
        b2 == push_uint32(b1, NEGOTIATION)
        b3 == PushInt(b2, CidLengthByte(Len(destination_cid), Len(source_cid)), 1)
        b4 == push_bytes(b3, destination_cid)
        b5 == push_bytes(b4, source_cid)
    IN  PushVersions(b5, supported_versions)

\* ---------------------------------------------- packet header: the calls

\* The CID lengths section 4.2 of the specification names, and those a
\* four-bit code carries.
StatedCidLens == {0} \cup (4..19)

NibbleCidLens == {0} \cup (4..18)

Cid(n, salt) == [i \in 1..n |-> (salt + 7 * i) % 256]

Token(n) == [i \in 1..n |-> (199 + 3 * i) % 256]

TokenLens == {0, 4, 63, 64}

HeaderVersions == {NEGOTIATION, DRAFT_17, <<0, 0, 65535, 65535>>}

HeaderTypes ==
    {PACKET_TYPE_INITIAL, PACKET_TYPE_0RTT, PACKET_TYPE_HANDSHAKE, PACKET_TYPE_RETRY}

HeaderCapacity == 128

HeaderPush ==
    /\ op = "init"
    /\ \E t \in HeaderTypes, v \in HeaderVersions, d \in StatedCidLens,
       s \in StatedCidLens, n \in TokenLens :
        /\ t # PACKET_TYPE_INITIAL => n = 0
        /\ arg' = QuicHeader(v, t, Cid(d, 16), Cid(s, 160), <<>>, Token(n), W0)
        /\ buf' = push_quic_header(Buffer(HeaderCapacity), arg')
        /\ op' = "header_pushed"
        /\ res' = Idle
        /\ UNCHANGED <<ranges, hist>>

HeaderPull ==
    /\ op = "header_pushed"
    /\ buf.err = "ok"
    /\ res' = pull_quic_header(BufferOf(Data(buf)), 0)
    /\ op' = "header_pulled"
    /\ UNCHANGED <<ranges, hist, arg, buf>>

VNCidLens == {0, 8, 18}

\* The number of versions that fill the buffer after the six fixed bytes.
VNFull == (VNCapacity - 6) \div 4

VNCounts == (0..MaxVersions) \cup {VNFull, VNFull + 1}

VNVersions(n) == [i \in 1..n |-> <<0, 0, 65280, 16 + i>>]

VNPush ==
    /\ op = "init"
    /\ \E random \in 0..255, d \in VNCidLens, s \in VNCidLens, n \in VNCounts :
        /\ arg' = [random |-> random, source_cid |-> Cid(s, 160),
                   destination_cid |-> Cid(d, 16), n |-> n]
        /\ buf' = encode_quic_version_negotiation(random, Cid(s, 160), Cid(d, 16),
                                                  VNVersions(n))
        /\ op' = "vn_pushed"
        /\ res' = Idle
        /\ UNCHANGED <<ranges, hist>>

VNPull ==
    /\ op = "vn_pushed"
    /\ buf.err = "ok"
    /\ res' = pull_quic_header(BufferOf(Data(buf)), 0)
    /\ op' = "vn_pulled"
    /\ UNCHANGED <<ranges, hist, arg, buf>>

\* A short header datagram as it arrives: a first byte, some bytes of the
\* destination CID, and the protected payload.
ShortPull ==
    /\ op = "init"
    /\ \E first \in {0, 64, 96, 112}, host_cid_length \in {0, 8}, n \in 0..9 :
        /\ arg' = [first |-> first, host_cid_length |-> host_cid_length, n |-> n]
        /\ buf' = BufferOf(<<first>> \o Cid(n, 16))
        /\ res' = pull_quic_header(buf', host_cid_length)
        /\ op' = "short_pulled"
        /\ UNCHANGED <<ranges, hist>>

NextHeader == HeaderPush \/ HeaderPull \/ VNPush \/ VNPull \/ ShortPull

SpecHeader == Init /\ [][NextHeader]_vars

\* C4: an Initial header with a non-zero version and CID lengths a four-bit
\* code carries is written by push_quic_header and read back by
\* pull_quic_header with the same version, packet type, CIDs, original
\* destination CID and token.
InitialRoundTrip ==
    /\ op \in {"header_pushed", "header_pulled"}
    /\ arg.packet_type = PACKET_TYPE_INITIAL
    /\ arg.version # NEGOTIATION
    /\ Len(arg.destination_cid) \in NibbleCidLens
    /\ Len(arg.source_cid) \in NibbleCidLens
    => /\ buf.err = "ok"
       /\ op = "header_pulled" =>
             /\ res.b.err = "ok"
             /\ res.h.version = arg.version
             /\ res.h.packet_type = arg.packet_type
             /\ res.h.destination_cid = arg.destination_cid
             /\ res.h.source_cid = arg.source_cid
             /\ res.h.original_destination_cid = arg.original_destination_cid
             /\ res.h.token = arg.token

\* The Initial header of section 8 (8-byte destination CID, no source CID,
\* 4-byte token) and one with a 64-byte token have been read back.
InitialReadBack ==
    /\ op = "header_pulled"
    /\ arg.packet_type = PACKET_TYPE_INITIAL
    /\ arg.version = DRAFT_17
    /\ Len(arg.destination_cid) = 8
    /\ Len(arg.source_cid) = 0
    /\ Len(arg.token) = 4
    /\ res.h.token = Token(4)
    /\ res.h.destination_cid = Cid(8, 16)

\* The CID-length coding on the set of lengths L: every length has a
\* four-bit code, distinct lengths have distinct codes, the CID-length byte a
\* push wrote holds the two codes, and the pull splits it into the lengths.
CidCodingOn(L) ==
    /\ op \in {"header_pushed", "header_pulled", "vn_pushed", "vn_pulled"}
    /\ Len(arg.destination_cid) \in L
    /\ Len(arg.source_cid) \in L
    => LET d == Len(arg.destination_cid)
           s == Len(arg.source_cid)
       IN  /\ encode_cid_length(d) \in 0..15
           /\ encode_cid_length(s) \in 0..15
           /\ \A x \in L : encode_cid_length(x) = encode_cid_length(d) => x = d
           /\ \A x \in L : encode_cid_length(x) = encode_cid_length(s) => x = s
           /\ buf.err \in {"ok", "BufferTruncated"}
           /\ buf.pos >= 6 =>
                 /\ buf.data[6] = encode_cid_length(d) * 16 + encode_cid_length(s)
                 /\ decode_cid_length(buf.data[6] \div 16) = d
                 /\ decode_cid_length(buf.data[6] % 16) = s
           /\ op \in {"header_pulled", "vn_pulled"} =>
                 /\ res.b.err = "ok"
                 /\ Len(res.h.destination_cid) = d
                 /\ Len(res.h.source_cid) = s

\* C5 as stated: the coding is a bijection on {0} and 4..19.
CidCodingStated == CidCodingOn(StatedCidLens)

\* C5, amended: the coding is a bijection on {0} and 4..18.
CidCodingNibble == CidCodingOn(NibbleCidLens)

\* CIDs of the two longest lengths a code carries have been read back.
CidLongestReadBack ==
    /\ op = "header_pulled"
    /\ Len(arg.destination_cid) = 18
    /\ Len(arg.source_cid) = 4
    /\ Len(res.h.destination_cid) = 18
    /\ Len(res.h.source_cid) = 4

\* C8: a version negotiation packet that fits the buffer is read back,
\* whatever its random byte, with version 0, no packet type, the same CIDs
\* and rest_length four times the number of versions.
VNReadBack ==
    /\ op \in {"vn_pushed", "vn_pulled"}
    /\ 6 + Len(arg.destination_cid) + Len(arg.source_cid) + 4 * arg.n <= VNCapacity
    => /\ buf.err = "ok"
       /\ op = "vn_pulled" =>
             /\ res.b.err = "ok"
             /\ res.h.version = NEGOTIATION
             /\ res.h.packet_type = NoType
             /\ res.h.destination_cid = arg.destination_cid
             /\ res.h.source_cid = arg.source_cid
             /\ res.h.rest_length = Int2W(4 * arg.n)

\* A packet whose random byte has neither the long header nor the fixed bit
\* set, with two versions, has been read back.
VNRandomZero ==
    /\ op = "vn_pulled"
    /\ arg.random = 0
    /\ arg.n = 2
    /\ Len(arg.destination_cid) = 8
    /\ res.h.rest_length = Int2W(8)
    /\ res.h.packet_type = NoType

\* ------------------------------------------------ transport parameters

\* Python values carry their type: None, an int (a word), bytes, a bool.
None == <<>>

PyInt(w) == <<"int", w>>

PyBytes(bs) == <<"bytes", bs>>

PyBool(x) == <<"bool", x>>

IsFalse(value) == value # None /\ value[1] = "bool" /\ value[2] = FALSE

\* A returned record, as opposed to no record.
Some(x) == <<x>>

PARAMS ==
    << [name |-> "original_connection_id", type |-> "bytes"],
       [name |-> "idle_timeout", type |-> "int"],
       [name |-> "stateless_reset_token", type |-> "bytes"],
       [name |-> "max_packet_size", type |-> "int"],
       [name |-> "initial_max_data", type |-> "int"],
       [name |-> "initial_max_stream_data_bidi_local", type |-> "int"],
       [name |-> "initial_max_stream_data_bidi_remote", type |-> "int"],
       [name |-> "initial_max_stream_data_uni", type |-> "int"],
       [name |-> "initial_max_streams_bidi", type |-> "int"],
       [name |-> "initial_max_streams_uni", type |-> "int"],
       [name |-> "ack_delay_exponent", type |-> "int"],
       [name |-> "max_ack_delay", type |-> "int"],
       [name |-> "disable_migration", type |-> "bool"],
       [name |-> "preferred_address", type |-> "bytes"] >>

ParamNames == {PARAMS[i].name : i \in 1..Len(PARAMS)}

\* QuicTransportParameters(): the fields of the table, at their defaults.
QuicTransportParameters ==
    [n \in ParamNames |-> IF n = "disable_migration" THEN PyBool(FALSE) ELSE None]

\* tls.pull_block: the length prefix of a block, capacity bytes wide.
pull_block(b, capacity) == PullUInt(b, capacity)

\* tls.push_block, entered: capacity bytes are kept for the length.
push_block_enter(b, capacity) ==
    IF b.err # "ok" THEN b
    ELSE IF b.pos + capacity > Len(b.data) THEN Fail(b, "BufferTruncated")
    ELSE [b EXCEPT !.pos = b.pos + capacity]

\* tls.push_block, left: the length of what was written since start goes
\* into the bytes kept before start.
push_block_exit(b, capacity, start) ==
    IF b.err # "ok" THEN b
    ELSE seek(PushInt(seek(b, start - capacity), tell(b) - start, capacity), tell(b))

\* The test of push_quic_transport_parameters with "is not None" alone.
IsPushedNotNone(param_value) == param_value # None

\* param_value is not None and param_value is not False
IsPushed(param_value) == param_value # None /\ ~IsFalse(param_value)

\* The for loop of push_quic_transport_parameters, from table slot i on
\* (param_id is i - 1).
RECURSIVE PushParams(_, _, _)
PushParams(b, params, i) ==
    IF i > Len(PARAMS) \/ b.err # "ok" THEN b
    ELSE LET param_value == params[PARAMS[i].name]
         IN  IF IsPushed(param_value)
             THEN LET b1 == push_block_enter(PushInt(b, i - 1, 2), 2)
                      b2 == IF PARAMS[i].type = "int"
                            THEN push_uint_var(b1, param_value[2])
                            ELSE IF PARAMS[i].type = "bytes"
                            THEN push_bytes(b1, param_value[2])
                            ELSE b1
                  IN  PushParams(push_block_exit(b2, 2, tell(b1)), params, i + 1)
             ELSE PushParams(b, params, i + 1)

push_quic_transport_parameters(b, params) ==
    LET b1 == push_block_enter(b, 2)
    IN  push_block_exit(PushParams(b1, params, 1), 2, tell(b1))

\* What the assert after an entry lets through when it is compiled away.
EntryCheckedNever(b, param_start, param_len) == b

\* assert buf.tell() == param_start + param_len
EntryChecked(b, param_start, param_len) ==
    IF b.err # "ok" THEN b
    ELSE IF tell(b) = param_start + param_len THEN b
    ELSE Fail(b, "AssertionError")

\* The while loop of pull_quic_transport_parameters; log keeps, for every
\* entry decoded, its id, its declared length and the cursor before and
\* after its value.
RECURSIVE PullParams(_, _, _, _)
PullParams(b, end, params, log) ==
    IF b.err # "ok" \/ ~(tell(b) < end) THEN [b |-> b, params |-> params, log |-> log]
    ELSE LET id == pull_uint16(b)
             ln == pull_uint16(id.b)
             param_id == W2Int(id.v)
             param_len == W2Int(ln.v)
             param_start == tell(ln.b)
             known == param_id < Len(PARAMS)
             type == IF known THEN PARAMS[param_id + 1].type ELSE "unknown"
             iv == pull_uint_var(ln.b)
             bv == pull_bytes(ln.b, param_len)
             after == IF type = "int" THEN iv.b
                      ELSE IF type = "bool" THEN ln.b
                      ELSE bv.b
             value == IF type = "int" THEN PyInt(iv.v)
                      ELSE IF type = "bool" THEN PyBool(TRUE)
                      ELSE PyBytes(bv.v)
             set == IF known /\ after.err = "ok"
                    THEN [params EXCEPT ![PARAMS[param_id + 1].name] = value]
                    ELSE params
         IN  IF ln.b.err # "ok" THEN [b |-> ln.b, params |-> params, log |-> log]
             ELSE PullParams(EntryChecked(after, param_start, param_len), end, set,
                             Append(log, [id |-> param_id, len |-> param_len,
                                          start |-> param_start,
                                          after |-> tell(after),
                                          err |-> after.err]))

\* A parse that raised returns no record.
pull_quic_transport_parameters(b) ==
    LET length == pull_block(b, 2)
        r == PullParams(length.b, tell(length.b) + W2Int(length.v),
                        QuicTransportParameters, <<>>)
    IN  [err |-> r.b.err, log |-> r.log,
         params |-> IF r.b.err = "ok" THEN Some(r.params) ELSE None]

\* ------------------------------------- transport parameters: round trip

IntSamples ==
    << Int2W(0), Int2W(16384), Int2W(63), Int2W(64), Int2W(16383), Int2W(100),
       <<0, 0, 16383, 65535>>, <<0, 0, 16384, 0>>, <<16383, 65535, 65535, 65535>> >>

\* The value field i of the table takes when present, for the seed k.
SampleValue(i, k) ==
    IF PARAMS[i].type = "int" THEN PyInt(IntSamples[((i + k) % Len(IntSamples)) + 1])
    ELSE IF PARAMS[i].type = "bytes" THEN PyBytes(Cid(8 * ((i + k) % 3), 16 * i))
    ELSE PyBool(TRUE)

SampleParams(present, k) ==
    [n \in ParamNames |->
        LET i == CHOOSE j \in 1..Len(PARAMS) : PARAMS[j].name = n
        IN  IF i \in present THEN SampleValue(i, k)
            ELSE QuicTransportParameters[n]]

MaxSeed == 1

ParamsCapacity == 192

ParamsPush ==
    /\ op = "init"
    /\ \E present \in SUBSET (1..Len(PARAMS)), k \in 0..MaxSeed :
        /\ arg' = [params |-> SampleParams(present, k), present |-> present]
        /\ buf' = push_quic_transport_parameters(Buffer(ParamsCapacity), arg'.params)
        /\ op' = "params_pushed"
        /\ res' = Idle
        /\ UNCHANGED <<ranges, hist>>

ParamsPull ==
    /\ op = "params_pushed"
    /\ buf.err = "ok"
    /\ res' = pull_quic_transport_parameters(BufferOf(Data(buf)))
    /\ op' = "params_pulled"
    /\ UNCHANGED <<ranges, hist, arg, buf>>

NextParams == ParamsPush \/ ParamsPull

SpecParams == Init /\ [][NextParams]_vars

\* C7: the block push_quic_transport_parameters writes holds one entry per
\* present field, in table order, and none for an absent field or a false
\* flag; pull_quic_transport_parameters reads it back to the same record.
ParamsRoundTrip ==
    /\ op \in {"params_pushed", "params_pulled"} => buf.err = "ok"
    /\ op = "params_pulled" =>
          /\ res.err = "ok"
          /\ res.params = Some(arg.params)
          /\ Len(res.log) = Cardinality(arg.present)
          /\ \A j \in 1..Len(res.log) :
                /\ res.log[j].id + 1 \in arg.present
                /\ j > 1 => res.log[j - 1].id < res.log[j].id
          /\ (Len(res.log) > 0 => res.log[Len(res.log)].after = buf.pos)
          /\ (Len(res.log) = 0 => buf.pos = 2)

\* The record of section 8, initial_max_data alone, and a record with all
\* fourteen fields present have been read back.
ParamsOnlyMaxData ==
    /\ op = "params_pulled"
    /\ arg.present = {5}
    /\ res.params[1]["initial_max_data"] = PyInt(Int2W(100))
    /\ res.params[1]["idle_timeout"] = None
    /\ res.params[1]["disable_migration"] = PyBool(FALSE)

\* ---------------------------------- transport parameters: blocks received

\* An entry as it arrives: an id, a declared length and the bytes that
\* follow, which need not be as many as declared.
TlvIds == {0, 1, 12, 14}

TlvValues == {<<>>, <<5>>, <<64, 5>>}

MaxLen == 2

TlvEntries == [id : TlvIds, len : 0..MaxLen, value : TlvValues]

U16(n) == <<n \div 256, n % 256>>

RECURSIVE TlvBytes(_)
TlvBytes(entries) ==
    IF entries = <<>> THEN <<>>
    ELSE U16(entries[1].id) \o U16(entries[1].len) \o entries[1].value
         \o TlvBytes(Tail(entries))

TlvBlock(entries) == U16(Len(TlvBytes(entries))) \o TlvBytes(entries)

TlvPull ==
    /\ op = "init"
    /\ \E n \in 0..MaxEntries : \E entries \in [1..n -> TlvEntries] :
        /\ arg' = entries
        /\ buf' = BufferOf(TlvBlock(entries))
        /\ res' = pull_quic_transport_parameters(buf')
        /\ op' = "tlv_pulled"
        /\ UNCHANGED <<ranges, hist>>

NextTlv == TlvPull

SpecTlv == Init /\ [][NextTlv]_vars

EntryExact(e) == e.after = e.start + e.len

\* The bytes the decoding of an entry of this id reads when its value
\* starts with the byte first.
Consumed(id, len, first) ==
    IF PARAMS[id + 1].type = "int" THEN UINT_VAR_FORMATS[(first \div 64) + 1].size
    ELSE IF PARAMS[id + 1].type = "bool" THEN 0
    ELSE len

\* C10: a record is returned only if after every entry the cursor was at
\* param_start + len; an entry whose decoding read another number of bytes
\* ended the parse there, with no record.
TlvLengthIntegrity ==
    op = "tlv_pulled" =>
        /\ res.err = "ok" => \A j \in 1..Len(res.log) : EntryExact(res.log[j])
        /\ \A j \in 1..Len(res.log) :
              ~EntryExact(res.log[j]) =>
                  /\ res.err # "ok"
                  /\ res.params = None
                  /\ j = Len(res.log)
        /\ /\ Len(arg) > 0
           /\ arg[1].id < Len(PARAMS)
           /\ arg[1].value # <<>>
           /\ Consumed(arg[1].id, arg[1].len, arg[1].value[1]) # arg[1].len
           => res.err # "ok" /\ res.params = None

\* A flag entry declaring one byte, after an exact integer entry, has
\* ended the parse.
TlvFlagWithLength ==
    /\ op = "tlv_pulled"
    /\ Len(res.log) = 2
    /\ EntryExact(res.log[1])
    /\ res.log[1].id = 1
    /\ res.log[2].id = 12
    /\ res.log[2].len = 1
    /\ res.log[2].after = res.log[2].start
    /\ res.err = "AssertionError"

\* ------------------------------------------------ CRYPTO and STREAM frames

QuicStreamFrame(data, fin, offset) == [data |-> data, fin |-> fin, offset |-> offset]

pull_crypto_frame(b) ==
    LET offset == pull_uint_var(b)
        length == pull_uint_var(offset.b)
        data == PullBytesW(length.b, length.v)
    IN  [b |-> data.b, frame |-> QuicStreamFrame(data.v, FALSE, offset.v)]

\* What follows the yield of push_crypto_frame and of push_stream_frame:
\* the length of what the with block wrote goes into the two bytes before
\* start.
PatchLength(b, start) ==
    LET end == tell(b)
    IN  seek(PushInt(seek(b, start - 2), BitOr(end - start, 16384), 2), end)

\* body is what the with block pushes; when the block raises, the length
\* is left unpatched.
push_crypto_frame(b, offset, body) ==
    LET b1 == PushInt(push_uint_var(b, offset), 0, 2)
    IN  PatchLength(push_bytes(b1, body), tell(b1))

push_stream_frame(b, stream_id, offset, body) ==
    LET b0 == push_uint_var(b, stream_id)
        b1 == PushInt(IF offset # W0 THEN push_uint_var(b0, offset) ELSE b0, 0, 2)
    IN  PatchLength(push_bytes(b1, body), tell(b1))

\* -------------------------------------------------- frames: the calls

Body(n) == [i \in 1..n |-> (i * 5) % 256]

\* The body lengths: short ones, and those around the ends of the ranges of
\* a two-byte varint (0x3FFF) and of a 16-bit field (0xFFFF).
BodyLens == (0..MaxBody) \cup {63, 64, 16383, 16384, 32768, 65535, 65536}

FrameOffsets == {Int2W(0), Int2W(1), Int2W(64), Int2W(16384)}

StreamIds == {Int2W(0), Int2W(4), Int2W(64)}

\* Room for the stream id, the offset and the length before the body.
FrameRoom == 16

CryptoPush ==
    /\ op = "init"
    /\ \E offset \in FrameOffsets, n \in BodyLens :
        /\ arg' = [kind |-> "crypto", stream_id |-> W0, offset |-> offset, n |-> n]
        /\ buf' = push_crypto_frame(Buffer(FrameRoom + n), offset, Body(n))
        /\ op' = "frame_pushed"
        /\ res' = Idle
        /\ UNCHANGED <<ranges, hist>>

StreamPush ==
    /\ op = "init"
    /\ \E stream_id \in StreamIds, offset \in FrameOffsets, n \in BodyLens :
        /\ arg' = [kind |-> "stream", stream_id |-> stream_id, offset |-> offset,
                   n |-> n]
        /\ buf' = push_stream_frame(Buffer(FrameRoom + n), stream_id, offset, Body(n))
        /\ op' = "frame_pushed"
        /\ res' = Idle
        /\ UNCHANGED <<ranges, hist>>

\* A CRYPTO frame is read by pull_crypto_frame.  A STREAM frame is read the
\* same way after its stream id; with the offset left out, what
\* pull_crypto_frame takes for the offset is the stream id.
FramePull ==
    /\ op = "frame_pushed"
    /\ buf.err = "ok"
    /\ LET b == BufferOf(Data(buf))
           id == pull_uint_var(b)
       IN  res' = IF arg.kind = "stream" /\ arg.offset # W0
                  THEN pull_crypto_frame(id.b)
                  ELSE pull_crypto_frame(b)
    /\ op' = "frame_pulled"
    /\ UNCHANGED <<ranges, hist, arg, buf>>

NextFrames == CryptoPush \/ StreamPush \/ FramePull

SpecFrames == Init /\ [][NextFrames]_vars

\* The length field of the frame in buf, read as pull_crypto_frame reads it.
LengthField == pull_uint_var(seek(BufferOf(buf.data), buf.pos - arg.n - 2))

\* C9: a frame is either written with a length field that decodes to the
\* length of its body, and then read back with that body, or not written
\* because the length exceeds the field.
FrameLengthExact ==
    op \in {"frame_pushed", "frame_pulled"} =>
        \/ buf.err = "ValueTooLarge"
        \/ /\ buf.err = "ok"
           /\ LengthField.v = Int2W(arg.n)
           /\ op = "frame_pulled" =>
                 /\ res.b.err = "ok"
                 /\ res.frame.data = Body(arg.n)
                 /\ res.frame.offset = (IF arg.kind = "stream" /\ arg.offset = W0
                                        THEN arg.stream_id ELSE arg.offset)

=============================================================================
